---- MODULE Spec2Model ----
(***************************************************************************)
(* The Subversion command line client, subversion/clients/cmdline/main.c:  *)
(* the option table, the command table and its lookup, the "X:Y" argument  *)
(* parsers and main().                                                     *)
(*                                                                         *)
(* C strings that are looked at character by character (option arguments)  *)
(* are sequences of one-character strings; command names, which are only   *)
(* compared with strcmp, are TLA+ strings.                                 *)
(***************************************************************************)
EXTENDS Integers, Sequences, FiniteSets, TLC

VARIABLES
  pc,                        \* where the modelled function stands
  argv,                      \* argv[1..]: the tokens of the command line
  ind,                       \* the tokenizer's position in argv (1-based)
  opt_state,                 \* svn_cl__opt_state_t opt_state
  log_under_version_control, \* main's local of that name
  pool,                      \* the allocation context created at startup
  subcommand,                \* index into svn_cl__cmd_table, NoEntry for NULL
  ret,                       \* the int returned by parse_revision / parse_date
  exit_code,                 \* the values main returned: <<>> while it runs
  dispatched,                \* the handlers called through subcommand->cmd_func
  out,                       \* what was printed, in order
  arg,                       \* the argument string handed to a parser
  cmd,                       \* the command name handed to the table lookup
  cmd_desc                   \* the lookup's cursor into svn_cl__cmd_table

vars == <<pc, argv, ind, opt_state, log_under_version_control, pool,
          subcommand, ret, exit_code, dispatched, out, arg, cmd, cmd_desc>>

(***************************************************************************)
(* Bounds of the model.                                                    *)
(***************************************************************************)
\* the longest command line (tokens after argv[0]) that is enumerated
MaxArgs == 3
\* every string over RevChars up to this length is given to parse_revision
MaxLen == 3

(***************************************************************************)
(* Null pointers.                                                          *)
(***************************************************************************)
\* (const char *) NULL for a command name: distinct from every name used
NULL == "NULL"
\* (char *) NULL for a character string: its one element is no character
NullText == <<"NULL">>
\* a null svn_cl__cmd_desc_t pointer; table entries are numbered from 1
NoEntry == 0

\* -1 in svn_types.h; written by parse_revision for "head"
SVN_INVALID_REVNUM == -1

EXIT_SUCCESS == 0
EXIT_FAILURE == 1

(***************************************************************************)
(* Characters and strings.                                                 *)
(***************************************************************************)
Digits == <<"0", "1", "2", "3", "4", "5", "6", "7", "8", "9">>

\* !((*p < '0') || (*p > '9'))
IsDigit(c) == \E d \in 1..10 : Digits[d] = c

DigitVal(c) == (CHOOSE d \in 1..10 : Digits[d] = c) - 1

\* strlen
strlen(s) == Len(s)

\* s[i] as C reads it: the terminating NUL (here "") one past the end
CharAt(s, i) == IF i <= Len(s) THEN s[i] ELSE ""

\* strchr (s, c): the 1-based position of the first c in s, 0 for NULL
strchr(s, c) ==
  IF \E i \in 1..Len(s) : s[i] = c
    THEN CHOOSE i \in 1..Len(s) : s[i] = c /\ \A j \in 1..(i - 1) : s[j] # c
    ELSE 0

\* the string that starts at position i of s (s + i - 1 in C)
StrFrom(s, i) == SubSeq(s, i, Len(s))

(***************************************************************************)
(* atoi.  The value is accumulated in two 16-bit limbs so that it wraps    *)
(* modulo 2^32 as a 32-bit int does; a value that does not fit an int is   *)
(* undefined behaviour of atoi, and the result depends on the build.       *)
(***************************************************************************)
INT_MAX_DIGITS == <<"2", "1", "4", "7", "4", "8", "3", "6", "4", "7">>
LONG_MAX_DIGITS == <<"9", "2", "2", "3", "3", "7", "2", "0", "3", "6",
                     "8", "5", "4", "7", "7", "5", "8", "0", "7">>

RECURSIVE StripZeros(_)
StripZeros(s) ==
  IF Len(s) > 0 /\ s[1] = "0" THEN StripZeros(StrFrom(s, 2)) ELSE s

\* a <= b for digit strings of the same length
RECURSIVE DigitsLE(_, _)
DigitsLE(a, b) ==
  IF Len(a) = 0 THEN TRUE
  ELSE IF DigitVal(a[1]) < DigitVal(b[1]) THEN TRUE
  ELSE IF DigitVal(a[1]) > DigitVal(b[1]) THEN FALSE
  ELSE DigitsLE(StrFrom(a, 2), StrFrom(b, 2))

\* the value of digit string s is at most that of the digit string max
FitsIn(s, max) ==
  LET t == StripZeros(s) IN
    \/ Len(t) < Len(max)
    \/ Len(t) = Len(max) /\ DigitsLE(t, max)

RECURSIVE Acc32(_, _, _)
Acc32(s, i, v) ==
  IF i > Len(s) THEN v
  ELSE LET lo == v[2] * 10 + DigitVal(s[i])
           hi == v[1] * 10 + (lo \div 65536)
       IN Acc32(s, i + 1, <<hi % 65536, lo % 65536>>)

\* the two limbs read as a two's-complement 32-bit int
ToSigned(v) ==
  IF v[1] >= 32768 THEN (v[1] - 65536) * 65536 + v[2]
                   ELSE v[1] * 65536 + v[2]

\* the leading digits of s (atoi stops at the first non-digit)
RECURSIVE DigitPrefix(_)
DigitPrefix(s) ==
  IF Len(s) > 0 /\ IsDigit(s[1]) THEN <<s[1]>> \o DigitPrefix(StrFrom(s, 2))
                                 ELSE <<>>

\* The C libraries a build can link: on a value beyond INT_MAX, "wrap" keeps
\* the low 32 bits (strtol with a 64-bit long, then the cast to int; for a
\* value beyond LONG_MAX strtol gives LONG_MAX, whose low 32 bits are -1),
\* "saturate" gives INT_MAX (strtol with a 32-bit long).
Builds == {"wrap", "saturate"}

\* atoi (s) in build b
atoi(b, s) ==
  LET d == DigitPrefix(s)
      wrapped == ToSigned(Acc32(d, 1, <<0, 0>>))
  IN IF FitsIn(d, INT_MAX_DIGITS) THEN wrapped
     ELSE IF b = "saturate" THEN 2147483647
     ELSE IF FitsIn(d, LONG_MAX_DIGITS) THEN wrapped
     ELSE -1

(***************************************************************************)
(* Parsing "X:Y"-style arguments.                                          *)
(***************************************************************************)
\* the test of lines 497-500; rev has length 1 or 4 when it is made
IsHeadWord(rev) ==
  /\ (CharAt(rev, 1) = "h" \/ CharAt(rev, 1) = "H")
  /\ (CharAt(rev, 2) = "e" \/ CharAt(rev, 2) = "E")
  /\ (CharAt(rev, 3) = "a" \/ CharAt(rev, 3) = "A")
  /\ (CharAt(rev, 4) = "d" \/ CharAt(rev, 4) = "D")

\* validate_revision from position p on: 0 when valid, 1 when not
RECURSIVE validate_from(_, _)
validate_from(rev, p) ==
  IF p > Len(rev) THEN 0
  ELSE IF ~IsDigit(rev[p])
    THEN IF p # 1 THEN 1
         ELSE LET len == strlen(rev) IN
           IF len # 1 /\ len # 4 THEN 1
           ELSE IF len = 1 /\ (rev[1] = "h" \/ rev[1] = "H") THEN 0
           ELSE IF IsHeadWord(rev) THEN 0
           ELSE 1
    ELSE validate_from(rev, p + 1)

validate_revision(rev) == validate_from(rev, 1)

\* left_rev and right_rev as parse_revision cuts them out of arg
left_of(a) ==
  LET sep == strchr(a, ":") IN IF sep # 0 THEN SubSeq(a, 1, sep - 1) ELSE a

right_of(a) ==
  LET sep == strchr(a, ":") IN IF sep # 0 THEN StrFrom(a, sep + 1) ELSE a

\* revision_of without the test for the empty half (line 561's third test)
revision_of_no_empty(b, rev) ==
  IF CharAt(rev, 1) = "h" \/ CharAt(rev, 1) = "H"
    THEN SVN_INVALID_REVNUM
    ELSE atoi(b, rev)

\* the value an endpoint is set to from its half of the argument
revision_of(b, rev) ==
  IF CharAt(rev, 1) = "h" \/ CharAt(rev, 1) = "H" \/ CharAt(rev, 1) = ""
    THEN SVN_INVALID_REVNUM
    ELSE atoi(b, rev)

\* parse_revision that validates and stores the left half before it looks
\* at the right half
parse_revision_left_first(b, os, a) ==
  LET sep == strchr(a, ":") IN
  IF sep # 0 /\ strchr(StrFrom(a, sep + 1), ":") # 0
    THEN <<1, os>>
  ELSE IF validate_revision(left_of(a)) # 0
    THEN <<1, os>>
  ELSE LET os1 == [os EXCEPT !.start_revision = revision_of(b, left_of(a))]
       IN IF validate_revision(right_of(a)) # 0
            THEN <<1, os1>>
            ELSE <<0, [os1 EXCEPT !.end_revision =
                                     revision_of(b, right_of(a))]>>

\* parse_revision (os, arg, pool) in build b: <<return value, os after>>
parse_revision(b, os, a) ==
  LET sep == strchr(a, ":") IN
  IF sep # 0 /\ strchr(StrFrom(a, sep + 1), ":") # 0
    THEN <<1, os>>
  ELSE IF validate_revision(left_of(a)) # 0 \/ validate_revision(right_of(a)) # 0
    THEN <<1, os>>
  ELSE <<0, [os EXCEPT !.start_revision = revision_of(b, left_of(a)),
                       !.end_revision = revision_of(b, right_of(a))]>>


(***************************************************************************)
(* Option processing: svn_cl__options.  optch is the option's code: the    *)
(* letter for a short switch, the enum constant of cl.h for a long-only    *)
(* one.                                                                    *)
(***************************************************************************)
svn_cl__options == <<
  [name |-> "destination",  optch |-> "d", has_arg |-> 1],
  [name |-> "force",        optch |-> "svn_cl__force_opt", has_arg |-> 0],
  [name |-> "help",         optch |-> "h", has_arg |-> 0],
  [name |-> "message",      optch |-> "m", has_arg |-> 1],
  [name |-> "quiet",        optch |-> "q", has_arg |-> 0],
  [name |-> "recursive",    optch |-> "svn_cl__recursive_opt", has_arg |-> 0],
  [name |-> "nonrecursive", optch |-> "n", has_arg |-> 0],
  [name |-> "revision",     optch |-> "r", has_arg |-> 1],
  [name |-> "date",         optch |-> "D", has_arg |-> 1],
  [name |-> "filedata",     optch |-> "F", has_arg |-> 1],
  [name |-> "xml-file",     optch |-> "svn_cl__xml_file_opt", has_arg |-> 1],
  [name |-> "locale",       optch |-> "svn_cl__locale_opt", has_arg |-> 1],
  [name |-> "version",      optch |-> "svn_cl__version_opt", has_arg |-> 0],
  [name |-> "verbose",      optch |-> "v", has_arg |-> 0],
  [name |-> "very-verbose", optch |-> "V", has_arg |-> 0],
  [name |-> "show-updates", optch |-> "u", has_arg |-> 0],
  [name |-> "username",     optch |-> "svn_cl__auth_username_opt", has_arg |-> 1],
  [name |-> "password",     optch |-> "svn_cl__auth_password_opt", has_arg |-> 1],
  [name |-> "extensions",   optch |-> "x", has_arg |-> 1]
>>

(***************************************************************************)
(* Command dispatch: svn_cl__cmd_table, the terminating entry of nulls     *)
(* included.  help is the usage line of the entry's help text.             *)
(***************************************************************************)
svn_cl__cmd_table == <<
  [name |-> "add", is_alias |-> FALSE, cmd_func |-> "svn_cl__add",
   help |-> "usage: add [TARGETS]",
   valid_options |-> <<"r">>],
  [name |-> "ad", is_alias |-> TRUE, cmd_func |-> NULL,
   help |-> NULL,
   valid_options |-> <<>>],
  [name |-> "new", is_alias |-> TRUE, cmd_func |-> NULL,
   help |-> NULL,
   valid_options |-> <<>>],
  [name |-> "checkout", is_alias |-> FALSE, cmd_func |-> "svn_cl__checkout",
   help |-> "usage: checkout REPOS_URL1 [REPOS_URL2 REPOS_URL3...]",
   valid_options |-> <<"svn_cl__auth_username_opt",
       "svn_cl__auth_password_opt", "svn_cl__xml_file_opt", "d", "q", "n",
       "D", "r">>],
  [name |-> "co", is_alias |-> TRUE, cmd_func |-> NULL,
   help |-> NULL,
   valid_options |-> <<>>],
  [name |-> "cleanup", is_alias |-> FALSE, cmd_func |-> "svn_cl__cleanup",
   help |-> "usage: cleanup [TARGETS]",
   valid_options |-> <<>>],
  [name |-> "commit", is_alias |-> FALSE, cmd_func |-> "svn_cl__commit",
   help |-> "usage: commit [TARGETS]",
   valid_options |-> <<"F", "m", "svn_cl__auth_username_opt",
       "svn_cl__auth_password_opt", "svn_cl__xml_file_opt", "q", "r">>],
  [name |-> "ci", is_alias |-> TRUE, cmd_func |-> NULL,
   help |-> NULL,
   valid_options |-> <<>>],
  [name |-> "copy", is_alias |-> FALSE, cmd_func |-> "svn_cl__copy",
   help |-> "usage: copy SRC_PATH DST_PATH",
   valid_options |-> <<"F", "m", "r", "svn_cl__auth_username_opt",
       "svn_cl__auth_password_opt">>],
  [name |-> "cp", is_alias |-> TRUE, cmd_func |-> NULL,
   help |-> NULL,
   valid_options |-> <<>>],
  [name |-> "delete", is_alias |-> FALSE, cmd_func |-> "svn_cl__delete",
   help |-> "usage: delete [TARGET]",
   valid_options |-> <<"F", "m", "svn_cl__auth_username_opt",
       "svn_cl__auth_password_opt", "svn_cl__force_opt">>],
  [name |-> "del", is_alias |-> TRUE, cmd_func |-> NULL,
   help |-> NULL,
   valid_options |-> <<>>],
  [name |-> "remove", is_alias |-> TRUE, cmd_func |-> NULL,
   help |-> NULL,
   valid_options |-> <<>>],
  [name |-> "rm", is_alias |-> TRUE, cmd_func |-> NULL,
   help |-> NULL,
   valid_options |-> <<>>],
  [name |-> "diff", is_alias |-> FALSE, cmd_func |-> "svn_cl__diff",
   help |-> "usage: diff [-r REV] [TARGETS]",
   valid_options |-> <<"svn_cl__auth_username_opt",
       "svn_cl__auth_password_opt", "x", "r", "d", "n">>],
  [name |-> "di", is_alias |-> TRUE, cmd_func |-> NULL,
   help |-> NULL,
   valid_options |-> <<>>],
  [name |-> "help", is_alias |-> FALSE, cmd_func |-> "svn_cl__help",
   help |-> "usage: help [SUBCOMMAND1 [SUBCOMMAND2] ...]",
   valid_options |-> <<"svn_cl__version_opt">>],
  [name |-> "?", is_alias |-> TRUE, cmd_func |-> NULL,
   help |-> NULL,
   valid_options |-> <<>>],
  [name |-> "h", is_alias |-> TRUE, cmd_func |-> NULL,
   help |-> NULL,
   valid_options |-> <<>>],
  [name |-> "import", is_alias |-> FALSE, cmd_func |-> "svn_cl__import",
   help |-> "usage: import REPOS_URL [PATH] [NEW_ENTRY_IN_REPOS]",
   valid_options |-> <<"F", "m", "svn_cl__auth_username_opt",
       "svn_cl__auth_password_opt", "svn_cl__xml_file_opt", "q", "r">>],
  [name |-> "log", is_alias |-> FALSE, cmd_func |-> "svn_cl__log",
   help |-> "usage: log [-r REV1([:)REV2]] [PATH1 [PATH2] ...]",
   valid_options |-> <<"svn_cl__auth_username_opt",
       "svn_cl__auth_password_opt", "r", "v">>],
  [name |-> "mkdir", is_alias |-> FALSE, cmd_func |-> "svn_cl__mkdir",
   help |-> "usage: mkdir [NEW_DIR | REPOS_URL]",
   valid_options |-> <<"svn_cl__auth_username_opt",
       "svn_cl__auth_password_opt", "m", "F">>],
  [name |-> "move", is_alias |-> FALSE, cmd_func |-> "svn_cl__move",
   help |-> "usage: move SRC_PATH DST_PATH",
   valid_options |-> <<"svn_cl__auth_username_opt",
       "svn_cl__auth_password_opt", "m", "F", "r">>],
  [name |-> "mv", is_alias |-> TRUE, cmd_func |-> NULL,
   help |-> NULL,
   valid_options |-> <<>>],
  [name |-> "rename", is_alias |-> TRUE, cmd_func |-> NULL,
   help |-> NULL,
   valid_options |-> <<>>],
  [name |-> "ren", is_alias |-> TRUE, cmd_func |-> NULL,
   help |-> NULL,
   valid_options |-> <<>>],
  [name |-> "propdel", is_alias |-> FALSE, cmd_func |-> "svn_cl__propdel",
   help |-> "usage: propdel PROPNAME [TARGETS]",
   valid_options |-> <<"q", "svn_cl__recursive_opt">>],
  [name |-> "pdel", is_alias |-> TRUE, cmd_func |-> NULL,
   help |-> NULL,
   valid_options |-> <<>>],
  [name |-> "propedit", is_alias |-> FALSE, cmd_func |-> "svn_cl__propedit",
   help |-> "usage: propedit PROPNAME [TARGETS]",
   valid_options |-> <<>>],
  [name |-> "pedit", is_alias |-> TRUE, cmd_func |-> NULL,
   help |-> NULL,
   valid_options |-> <<>>],
  [name |-> "pe", is_alias |-> TRUE, cmd_func |-> NULL,
   help |-> NULL,
   valid_options |-> <<>>],
  [name |-> "propget", is_alias |-> FALSE, cmd_func |-> "svn_cl__propget",
   help |-> "usage: propget PROPNAME [TARGETS]",
   valid_options |-> <<"svn_cl__recursive_opt">>],
  [name |-> "pget", is_alias |-> TRUE, cmd_func |-> NULL,
   help |-> NULL,
   valid_options |-> <<>>],
  [name |-> "pg", is_alias |-> TRUE, cmd_func |-> NULL,
   help |-> NULL,
   valid_options |-> <<>>],
  [name |-> "proplist", is_alias |-> FALSE, cmd_func |-> "svn_cl__proplist",
   help |-> "usage: proplist [TARGETS]",
   valid_options |-> <<"svn_cl__recursive_opt">>],
  [name |-> "plist", is_alias |-> TRUE, cmd_func |-> NULL,
   help |-> NULL,
   valid_options |-> <<>>],
  [name |-> "pl", is_alias |-> TRUE, cmd_func |-> NULL,
   help |-> NULL,
   valid_options |-> <<>>],
  [name |-> "propset", is_alias |-> FALSE, cmd_func |-> "svn_cl__propset",
   help |-> "usage: propset PROPNAME [PROPVAL | -F/--filedata VALFILE] [TARGETS]",
   valid_options |-> <<"F", "q", "svn_cl__recursive_opt">>],
  [name |-> "pset", is_alias |-> TRUE, cmd_func |-> NULL,
   help |-> NULL,
   valid_options |-> <<>>],
  [name |-> "ps", is_alias |-> TRUE, cmd_func |-> NULL,
   help |-> NULL,
   valid_options |-> <<>>],
  [name |-> "revert", is_alias |-> FALSE, cmd_func |-> "svn_cl__revert",
   help |-> "usage: revert [TARGETS]",
   valid_options |-> <<"svn_cl__recursive_opt">>],
  [name |-> "status", is_alias |-> FALSE, cmd_func |-> "svn_cl__status",
   help |-> "usage: status [TARGETS]",
   valid_options |-> <<"svn_cl__auth_username_opt",
       "svn_cl__auth_password_opt", "u", "n", "v", "q">>],
  [name |-> "stat", is_alias |-> TRUE, cmd_func |-> NULL,
   help |-> NULL,
   valid_options |-> <<>>],
  [name |-> "st", is_alias |-> TRUE, cmd_func |-> NULL,
   help |-> NULL,
   valid_options |-> <<>>],
  [name |-> "switch", is_alias |-> FALSE, cmd_func |-> "svn_cl__switch",
   help |-> "usage: switch [TARGET] REPOS_URL",
   valid_options |-> <<>>],
  [name |-> "sw", is_alias |-> TRUE, cmd_func |-> NULL,
   help |-> NULL,
   valid_options |-> <<>>],
  [name |-> "update", is_alias |-> FALSE, cmd_func |-> "svn_cl__update",
   help |-> "usage: update [TARGETS]",
   valid_options |-> <<"svn_cl__auth_username_opt",
       "svn_cl__auth_password_opt", "r", "D", "n",
       "svn_cl__xml_file_opt">>],
  [name |-> "up", is_alias |-> TRUE, cmd_func |-> NULL,
   help |-> NULL,
   valid_options |-> <<>>],
  [name |-> NULL, is_alias |-> FALSE, cmd_func |-> NULL,
   help |-> NULL,
   valid_options |-> <<>>]
>>

\* svn_cl__cmd_table[i] as C reads it; an index outside the array reads
\* memory that is not the table's (undefined behaviour), here the record
\* of nulls with is_alias FALSE
Entry(i) ==
  IF i \in 1..Len(svn_cl__cmd_table) THEN svn_cl__cmd_table[i]
  ELSE [name |-> NULL, is_alias |-> FALSE, cmd_func |-> NULL, help |-> NULL,
        valid_options |-> <<>>]

\* the loop of get_cmd_table_entry, returning where it stopped
RECURSIVE find_entry_or_end(_, _)
find_entry_or_end(cmd_name, i) ==
  IF Entry(i).name = NULL THEN i
  ELSE IF cmd_name = Entry(i).name THEN i
  ELSE find_entry_or_end(cmd_name, i + 1)

\* the loop of get_cmd_table_entry from index i on
RECURSIVE find_entry(_, _)
find_entry(cmd_name, i) ==
  IF Entry(i).name = NULL THEN NoEntry
  ELSE IF cmd_name = Entry(i).name THEN i
  ELSE find_entry(cmd_name, i + 1)

get_cmd_table_entry(cmd_name) ==
  IF cmd_name = NULL THEN NoEntry ELSE find_entry(cmd_name, 1)

\* while (cmd_desc->is_alias) cmd_desc--;
RECURSIVE walk_back(_)
walk_back(d) == IF Entry(d).is_alias THEN walk_back(d - 1) ELSE d

svn_cl__get_canonical_command(c) ==
  LET d == get_cmd_table_entry(c) IN
    IF d = NoEntry THEN NoEntry ELSE walk_back(d)

(***************************************************************************)
(* parse_date.  svn_parse_date (getdate.y) is a collaborator: it gives the *)
(* time_t of a date text it accepts and -1 for one it rejects.  The date   *)
(* texts the model knows are "a" (second 1) and "b" (second 2).            *)
(***************************************************************************)
svn_parse_date(text) ==
  IF text = <<"a">> THEN 1
  ELSE IF text = <<"b">> THEN 2
  ELSE -1

\* apr_ansi_time_to_apr_time (&result, input): seconds to microseconds
apr_ansi_time_to_apr_time(input) == input * 1000000

\* parse_date that stores both halves without the tests of lines 626, 629
parse_date_both_halves(os, a) ==
  LET sep == strchr(a, ":") IN
  IF sep # 0
    THEN IF strchr(StrFrom(a, sep + 1), ":") # 0 THEN <<1, os>>
         ELSE <<0, [os EXCEPT
                      !.start_date = apr_ansi_time_to_apr_time(
                                       svn_parse_date(SubSeq(a, 1, sep - 1))),
                      !.end_date = apr_ansi_time_to_apr_time(
                                     svn_parse_date(StrFrom(a, sep + 1)))]>>
    ELSE <<0, [os EXCEPT
                 !.start_date = apr_ansi_time_to_apr_time(svn_parse_date(a)),
                 !.end_date = apr_ansi_time_to_apr_time(svn_parse_date(a))]>>

\* parse_date (os, arg, pool): <<return value, os after>>
parse_date(os, a) ==
  LET sep == strchr(a, ":") IN
  IF sep # 0
    THEN IF strchr(StrFrom(a, sep + 1), ":") # 0 THEN <<1, os>>
         ELSE LET left_date == SubSeq(a, 1, sep - 1)
                  right_date == StrFrom(a, sep + 1)
                  os1 == IF CharAt(left_date, 1) # ""
                           THEN [os EXCEPT !.start_date =
                                   apr_ansi_time_to_apr_time(
                                     svn_parse_date(left_date))]
                           ELSE os
                  os2 == IF CharAt(right_date, 1) # ""
                           THEN [os1 EXCEPT !.end_date =
                                   apr_ansi_time_to_apr_time(
                                     svn_parse_date(right_date))]
                           ELSE os1
              IN <<0, os2>>
    ELSE LET os1 == [os EXCEPT !.start_date =
                       apr_ansi_time_to_apr_time(svn_parse_date(a))]
         IN <<0, [os1 EXCEPT !.end_date = os1.start_date]>>

(***************************************************************************)
(* The allocation context.                                                 *)
(***************************************************************************)
\* svn_pool_create (NULL)
svn_pool_create == [live |-> TRUE, destroyed |-> 0, misused |-> FALSE]

\* any allocation from, or call handed, the pool
PoolUse(p) == [p EXCEPT !.misused = p.misused \/ ~p.live]

svn_pool_destroy(p) ==
  [p EXCEPT !.live = FALSE, !.destroyed = p.destroyed + 1,
            !.misused = p.misused \/ ~p.live]

(***************************************************************************)
(* The command line and the world main runs in.                            *)
(***************************************************************************)
\* a switch without a value, a switch with its value, a positional argument
Opt(ch) ==
  [kind |-> "opt", optch |-> ch, has_arg |-> FALSE, text |-> NullText,
   name |-> NULL]
OptArg(ch, t) ==
  [kind |-> "opt", optch |-> ch, has_arg |-> TRUE, text |-> t, name |-> NULL]
Word(n) ==
  [kind |-> "arg", optch |-> NULL, has_arg |-> FALSE, text |-> NullText,
   name |-> n]

\* The files -F can name: whether svn_string_from_file reads the file, and
\* what svn_wc_entry says of it ("entry": no error and an entry, "none": no
\* error and a null entry, "error": an error).
FileSystem ==
  (<<"l", "o", "g">> :> [readable |-> TRUE, wc |-> "entry",
                         contents |-> <<"v">>])
  @@ (<<"t", "m", "p">> :> [readable |-> TRUE, wc |-> "none",
                            contents |-> <<"u">>])
  @@ (<<"o", "u", "t">> :> [readable |-> TRUE, wc |-> "error",
                            contents |-> <<"w">>])
  @@ (<<"n", "o">> :> [readable |-> FALSE, wc |-> "none",
                       contents |-> <<>>])

\* the locales setlocale (LC_ALL, ...) accepts
Locales == {<<"C">>}

\* what a command routine can return: no error, an error of kind
\* SVN_ERR_CL_ARG_PARSING_ERROR, an error of another kind
HandlerResults ==
  {"SVN_NO_ERROR", "SVN_ERR_CL_ARG_PARSING_ERROR", "SVN_ERR_OTHER"}

Tokens ==
  {Opt("svn_cl__force_opt"), Opt("h"), Opt("svn_cl__version_opt"), Opt("q"),
   Opt("?"), Opt("Z"), Opt("m"),
   OptArg("m", <<"m", "s", "g">>),
   OptArg("r", <<"5", ":", "1", "0">>), OptArg("r", <<"5", "x">>),
   OptArg("D", <<"a">>), OptArg("D", <<"a", ":">>), OptArg("D", <<":", "b">>),
   OptArg("D", <<"z">>), OptArg("D", <<"a", ":", "b", ":", "a">>),
   OptArg("F", <<"l", "o", "g">>), OptArg("F", <<"t", "m", "p">>),
   OptArg("F", <<"o", "u", "t">>), OptArg("F", <<"n", "o">>),
   OptArg("svn_cl__locale_opt", <<"C">>),
   OptArg("svn_cl__locale_opt", <<"x", "x">>),
   Word("status"), Word("st"), Word("help"), Word("foo")}

\* every sequence over S of length at most n
SeqsUpTo(S, n) == UNION {[1..k -> S] : k \in 0..n}

CommandLines == SeqsUpTo(Tokens, MaxArgs)

\* opt_state after lines 677-679
InitialOptState ==
  [message |-> NullText, start_revision |-> SVN_INVALID_REVNUM,
   end_revision |-> 1, start_date |-> 0, end_date |-> 0,
   verbose |-> FALSE, very_verbose |-> FALSE, update |-> FALSE,
   help |-> FALSE, quiet |-> FALSE, xml_file |-> NullText,
   target |-> NullText, filedata |-> NullText, modified |-> FALSE,
   force |-> FALSE, recursive |-> FALSE, nonrecursive |-> FALSE,
   version |-> FALSE, auth_username |-> NullText,
   auth_password |-> NullText, extensions |-> NullText]

\* a line written to a stream
Line(stream, msg, name, text) ==
  [stream |-> stream, msg |-> msg, name |-> name, text |-> text]

\* svn_cl__help (NULL, NULL, pool) prints the generic usage message
GenericHelp == Line("stdout", "generic help", NULL, NullText)

(***************************************************************************)
(* The tokenizer, apr_getopt_long with os->interleave = 1: it hands out    *)
(* the switches of argv in order, skipping positional arguments, and at    *)
(* the end leaves os->ind at the first positional argument of the permuted *)
(* argv.                                                                   *)
(***************************************************************************)
\* a tokenizer whose table lists '?' beside 'h'
OptionIndexes_question(ch) ==
  {i \in 1..Len(svn_cl__options) :
     svn_cl__options[i].optch = IF ch = "?" THEN "h" ELSE ch}

OptionIndexes(ch) ==
  {i \in 1..Len(svn_cl__options) : svn_cl__options[i].optch = ch}

\* the status apr_getopt_long returns for switch tok
apr_getopt_long(tok) ==
  IF OptionIndexes(tok.optch) = {} THEN "APR_BADCH"
  ELSE LET o == svn_cl__options[CHOOSE i \in OptionIndexes(tok.optch) : TRUE]
       IN IF (o.has_arg = 1) # tok.has_arg THEN "APR_BADARG"
          ELSE "APR_SUCCESS"

\* the position of the first switch of av at or after i, 0 when there is none
NextOption(av, i) ==
  IF \E j \in i..Len(av) : av[j].kind = "opt"
    THEN CHOOSE j \in i..Len(av) :
           av[j].kind = "opt" /\ \A k \in i..(j - 1) : av[k].kind # "opt"
    ELSE 0

IsOpt(tok) == tok.kind = "opt"
IsWord(tok) == tok.kind = "arg"

\* argv once every switch has been moved before the positional arguments
Permuted(av) == SelectSeq(av, IsOpt) \o SelectSeq(av, IsWord)

(***************************************************************************)
(* main.  Init is the state after lines 672-679: the pool is created and   *)
(* opt_state holds its defaults.                                           *)
(***************************************************************************)
Init ==
  /\ pc = "main"
  /\ argv \in CommandLines
  /\ ind = 1
  /\ opt_state = InitialOptState
  /\ log_under_version_control = FALSE
  /\ pool = svn_pool_create
  /\ subcommand = NoEntry
  /\ ret = 0
  /\ exit_code = <<>>
  /\ dispatched = <<>>
  /\ out = <<>>
  /\ arg = NullText
  /\ cmd = NULL
  /\ cmd_desc = NoEntry

\* what neither main nor the parsers touch
parked == <<cmd, cmd_desc, arg>>

\* lines 681-687: no args, show usage
MainNoArgs ==
  /\ pc = "main"
  /\ Len(argv) = 0
  /\ out' = Append(out, GenericHelp)
  /\ pool' = svn_pool_destroy(PoolUse(pool))
  /\ exit_code' = Append(exit_code, EXIT_FAILURE)
  /\ pc' = "returned"
  /\ UNCHANGED <<argv, ind, opt_state, log_under_version_control, subcommand,
                 ret, dispatched, parked>>

\* lines 689-691: apr_getopt_init
MainGetoptInit ==
  /\ pc = "main"
  /\ Len(argv) > 0
  /\ pool' = PoolUse(pool)
  /\ ind' = 1
  /\ pc' = "scan"
  /\ UNCHANGED <<argv, opt_state, log_under_version_control, subcommand, ret,
                 exit_code, dispatched, out, parked>>

\* the switch apr_getopt_long is about to hand out
CurrentOption == argv[NextOption(argv, ind)]

AtOption ==
  /\ pc = "scan"
  /\ NextOption(argv, ind) # 0

\* a line 698 that takes only a missing argument for an error
GetoptFails_only_badarg(tok) == apr_getopt_long(tok) = "APR_BADARG"

\* line 698: ! APR_STATUS_IS_SUCCESS (apr_err)
GetoptFails(tok) == apr_getopt_long(tok) # "APR_SUCCESS"

\* lines 696-697: end of the switches
MainScanEof ==
  /\ pc = "scan"
  /\ NextOption(argv, ind) = 0
  /\ argv' = Permuted(argv)
  /\ ind' = Len(SelectSeq(argv, IsOpt)) + 1
  /\ pc' = "resolve"
  /\ UNCHANGED <<opt_state, log_under_version_control, pool, subcommand, ret,
                 exit_code, dispatched, out, parked>>

\* lines 698-703 without the svn_pool_destroy of line 701
MainScanError_no_destroy ==
  /\ pc = "scan"
  /\ NextOption(argv, ind) # 0
  /\ GetoptFails(argv[NextOption(argv, ind)])
  /\ out' = Append(out, GenericHelp)
  /\ pool' = PoolUse(pool)
  /\ exit_code' = Append(exit_code, EXIT_FAILURE)
  /\ pc' = "returned"
  /\ UNCHANGED <<argv, ind, opt_state, log_under_version_control, subcommand,
                 ret, dispatched, parked>>

\* lines 698-703: the tokenizer reports an error
MainScanError ==
  /\ AtOption
  /\ GetoptFails(CurrentOption)
  /\ out' = Append(out, GenericHelp)
  /\ pool' = svn_pool_destroy(PoolUse(pool))
  /\ exit_code' = Append(exit_code, EXIT_FAILURE)
  /\ pc' = "returned"
  /\ UNCHANGED <<argv, ind, opt_state, log_under_version_control, subcommand,
                 ret, dispatched, parked>>

\* lines 709-722: case 'r'
MainOptRevision ==
  /\ AtOption
  /\ ~GetoptFails(CurrentOption)
  /\ CurrentOption.optch = "r"
  /\ \E b \in Builds :
       LET res == parse_revision(b, opt_state, CurrentOption.text) IN
         /\ ret' = res[1]
         /\ IF res[1] # 0
              THEN /\ out' = Append(out,
                                Line("stderr",
                                     "Syntax error in revision argument",
                                     NULL, CurrentOption.text))
                   /\ pool' = svn_pool_destroy(PoolUse(pool))
                   /\ exit_code' = Append(exit_code, EXIT_FAILURE)
                   /\ pc' = "returned"
                   /\ UNCHANGED <<ind, opt_state>>
              ELSE /\ opt_state' = res[2]
                   /\ pool' = PoolUse(pool)
                   /\ ind' = NextOption(argv, ind) + 1
                   /\ UNCHANGED <<out, exit_code, pc>>
  /\ UNCHANGED <<argv, log_under_version_control, subcommand, dispatched,
                 parked>>

\* lines 723-735: case 'D'
MainOptDate ==
  /\ AtOption
  /\ ~GetoptFails(CurrentOption)
  /\ CurrentOption.optch = "D"
  /\ LET res == parse_date(opt_state, CurrentOption.text) IN
       /\ ret' = res[1]
       /\ IF res[1] # 0
            THEN /\ out' = Append(out,
                              Line("stderr", "Unable to parse", NULL,
                                   CurrentOption.text))
                 /\ pool' = svn_pool_destroy(PoolUse(pool))
                 /\ exit_code' = Append(exit_code, EXIT_FAILURE)
                 /\ pc' = "returned"
                 /\ UNCHANGED <<ind, opt_state>>
            ELSE /\ opt_state' = res[2]
                 /\ pool' = PoolUse(pool)
                 /\ ind' = NextOption(argv, ind) + 1
                 /\ UNCHANGED <<out, exit_code, pc>>
  /\ UNCHANGED <<argv, log_under_version_control, subcommand, dispatched,
                 parked>>

\* lines 758-774 with the flag following the last file named
MainOptFiledata_last ==
  /\ AtOption
  /\ ~GetoptFails(CurrentOption)
  /\ CurrentOption.optch = "F"
  /\ LET file == FileSystem[CurrentOption.text] IN
       IF ~file.readable
         THEN /\ out' = Append(out,
                           Line("stdout", "svn_string_from_file error", NULL,
                                CurrentOption.text))
              /\ pool' = svn_pool_destroy(PoolUse(pool))
              /\ exit_code' = Append(exit_code, EXIT_FAILURE)
              /\ pc' = "returned"
              /\ UNCHANGED <<ind, opt_state, log_under_version_control>>
         ELSE /\ opt_state' = [opt_state EXCEPT !.filedata = file.contents]
              /\ log_under_version_control' = (file.wc = "entry")
              /\ pool' = PoolUse(pool)
              /\ ind' = NextOption(argv, ind) + 1
              /\ UNCHANGED <<out, exit_code, pc>>
  /\ UNCHANGED <<argv, subcommand, ret, dispatched, parked>>

\* lines 758-774: case 'F'
MainOptFiledata ==
  /\ AtOption
  /\ ~GetoptFails(CurrentOption)
  /\ CurrentOption.optch = "F"
  /\ LET file == FileSystem[CurrentOption.text] IN
       IF ~file.readable
         THEN /\ out' = Append(out,
                           Line("stdout", "svn_string_from_file error", NULL,
                                CurrentOption.text))
              /\ pool' = svn_pool_destroy(PoolUse(pool))
              /\ exit_code' = Append(exit_code, EXIT_FAILURE)
              /\ pc' = "returned"
              /\ UNCHANGED <<ind, opt_state, log_under_version_control>>
         ELSE /\ opt_state' = [opt_state EXCEPT !.filedata = file.contents]
              /\ log_under_version_control' =
                   IF file.wc = "entry" THEN TRUE
                                        ELSE log_under_version_control
              /\ pool' = PoolUse(pool)
              /\ ind' = NextOption(argv, ind) + 1
              /\ UNCHANGED <<out, exit_code, pc>>
  /\ UNCHANGED <<argv, subcommand, ret, dispatched, parked>>

\* lines 797-817 with a locale that can not be set ending the run
MainOptLocale_fatal ==
  /\ AtOption
  /\ ~GetoptFails(CurrentOption)
  /\ CurrentOption.optch = "svn_cl__locale_opt"
  /\ IF CurrentOption.text \notin Locales
       THEN /\ out' = Append(out,
                         Line("stderr", "The locale can not be set", NULL,
                              CurrentOption.text))
            /\ pool' = svn_pool_destroy(PoolUse(pool))
            /\ exit_code' = Append(exit_code, EXIT_FAILURE)
            /\ pc' = "returned"
            /\ UNCHANGED ind
       ELSE /\ ind' = NextOption(argv, ind) + 1
            /\ UNCHANGED <<out, pool, exit_code, pc>>
  /\ UNCHANGED <<argv, opt_state, log_under_version_control, subcommand,
                 ret, dispatched, parked>>

\* lines 797-817: case svn_cl__locale_opt
MainOptLocale ==
  /\ AtOption
  /\ ~GetoptFails(CurrentOption)
  /\ CurrentOption.optch = "svn_cl__locale_opt"
  /\ IF CurrentOption.text \notin Locales
       THEN /\ out' = Append(out,
                         Line("stderr", "The locale can not be set", NULL,
                              CurrentOption.text))
            /\ pool' = PoolUse(pool)
       ELSE UNCHANGED <<out, pool>>
  /\ ind' = NextOption(argv, ind) + 1
  /\ UNCHANGED <<pc, argv, opt_state, log_under_version_control, subcommand,
                 ret, exit_code, dispatched, parked>>

\* the cases of the switch at line 705 that only store into opt_state, and
\* its default
SetOption(os, opt_id, opt_arg) ==
  CASE opt_id = "m" -> [os EXCEPT !.message = opt_arg]
    [] opt_id = "v" -> [os EXCEPT !.verbose = TRUE]
    [] opt_id = "V" -> [os EXCEPT !.very_verbose = TRUE]
    [] opt_id = "u" -> [os EXCEPT !.update = TRUE]
    [] opt_id = "h" -> [os EXCEPT !.help = TRUE]
    [] opt_id = "?" -> [os EXCEPT !.help = TRUE]
    [] opt_id = "q" -> [os EXCEPT !.quiet = TRUE]
    [] opt_id = "svn_cl__xml_file_opt" -> [os EXCEPT !.xml_file = opt_arg]
    [] opt_id = "d" -> [os EXCEPT !.target = opt_arg]
    [] opt_id = "M" -> [os EXCEPT !.modified = TRUE]
    [] opt_id = "svn_cl__force_opt" -> [os EXCEPT !.force = TRUE]
    [] opt_id = "svn_cl__recursive_opt" -> [os EXCEPT !.recursive = TRUE]
    [] opt_id = "n" -> [os EXCEPT !.nonrecursive = TRUE]
    [] opt_id = "svn_cl__version_opt" ->
         [os EXCEPT !.version = TRUE, !.help = TRUE]
    [] opt_id = "svn_cl__auth_username_opt" ->
         [os EXCEPT !.auth_username = opt_arg]
    [] opt_id = "svn_cl__auth_password_opt" ->
         [os EXCEPT !.auth_password = opt_arg]
    [] opt_id = "x" -> [os EXCEPT !.extensions = opt_arg]
    [] OTHER -> os

\* the switches whose case does more than store into opt_state
ParsedSwitches == {"r", "D", "F", "svn_cl__locale_opt"}

\* lines 705-825 for every other switch
MainOptSet ==
  /\ AtOption
  /\ ~GetoptFails(CurrentOption)
  /\ CurrentOption.optch \notin ParsedSwitches
  /\ opt_state' = SetOption(opt_state, CurrentOption.optch, CurrentOption.text)
  /\ pool' = IF CurrentOption.has_arg THEN PoolUse(pool) ELSE pool
  /\ ind' = NextOption(argv, ind) + 1
  /\ UNCHANGED <<pc, argv, log_under_version_control, subcommand, ret,
                 exit_code, dispatched, out, parked>>

\* lines 832-837: help asked for, the feedback vtable
HelpSubcommand ==
  IF opt_state.help THEN svn_cl__get_canonical_command("help") ELSE NoEntry

FeedbackInit(p) == IF ~opt_state.quiet THEN PoolUse(p) ELSE p

\* lines 841-849: no subcommand argument
MainNoSubcommand ==
  /\ pc = "resolve"
  /\ HelpSubcommand = NoEntry
  /\ ind > Len(argv)
  /\ out' = out \o <<Line("stderr", "subcommand argument required", NULL,
                          NullText),
                     GenericHelp>>
  /\ pool' = svn_pool_destroy(PoolUse(FeedbackInit(pool)))
  /\ exit_code' = Append(exit_code, EXIT_FAILURE)
  /\ pc' = "returned"
  /\ UNCHANGED <<argv, ind, opt_state, log_under_version_control, subcommand,
                 ret, dispatched, parked>>

\* lines 850-862: the first argument is no command
MainUnknownCommand ==
  /\ pc = "resolve"
  /\ HelpSubcommand = NoEntry
  /\ ind <= Len(argv)
  /\ svn_cl__get_canonical_command(argv[ind].name) = NoEntry
  /\ ind' = ind + 1
  /\ out' = out \o <<Line("stderr", "unknown command", argv[ind].name,
                          NullText),
                     GenericHelp>>
  /\ pool' = svn_pool_destroy(PoolUse(FeedbackInit(pool)))
  /\ exit_code' = Append(exit_code, EXIT_FAILURE)
  /\ pc' = "returned"
  /\ UNCHANGED <<argv, opt_state, log_under_version_control, subcommand, ret,
                 dispatched, parked>>

\* the subcommand of lines 832-863 when there is one, and os->ind after them
Resolvable ==
  \/ HelpSubcommand # NoEntry
  \/ /\ ind <= Len(argv)
     /\ svn_cl__get_canonical_command(argv[ind].name) # NoEntry

Resolved ==
  IF HelpSubcommand # NoEntry THEN HelpSubcommand
  ELSE svn_cl__get_canonical_command(argv[ind].name)

\* an always-consuming lines 841-863: the first argument is taken even when
\* help was asked for
IndAfterResolve_consumed == ind + 1

IndAfterResolve == IF HelpSubcommand # NoEntry THEN ind ELSE ind + 1

\* a guard that does not look at the force flag
GuardRejects_no_force == log_under_version_control

\* line 867: the test of the guard
GuardRejects == log_under_version_control /\ ~opt_state.force

\* lines 865-878: the log message file is under revision control
MainGuardReject ==
  /\ pc = "resolve"
  /\ Resolvable
  /\ GuardRejects
  /\ subcommand' = Resolved
  /\ ind' = IndAfterResolve
  /\ out' = Append(out,
                   Line("stderr", "Log message file is a versioned file",
                        NULL, NullText))
  /\ pool' = svn_pool_destroy(PoolUse(FeedbackInit(pool)))
  /\ exit_code' = Append(exit_code, EXIT_FAILURE)
  /\ pc' = "returned"
  /\ UNCHANGED <<argv, opt_state, log_under_version_control, ret, dispatched,
                 parked>>

\* lines 832-878 with the advertised options of the command enforced: a
\* switch outside valid_options ends the run with the generic help
MainResolved_enforcing ==
  /\ pc = "resolve"
  /\ Resolvable
  /\ ~GuardRejects
  /\ subcommand' = Resolved
  /\ ind' = IndAfterResolve
  /\ IF \E j \in 1..Len(argv) :
          /\ argv[j].kind = "opt"
          /\ \A k \in 1..Len(Entry(Resolved).valid_options) :
               Entry(Resolved).valid_options[k] # argv[j].optch
       THEN /\ out' = Append(out, GenericHelp)
            /\ pool' = svn_pool_destroy(PoolUse(FeedbackInit(pool)))
            /\ exit_code' = Append(exit_code, EXIT_FAILURE)
            /\ pc' = "returned"
       ELSE /\ pool' = FeedbackInit(pool)
            /\ pc' = "dispatch"
            /\ UNCHANGED <<exit_code, out>>
  /\ UNCHANGED <<argv, opt_state, log_under_version_control, ret, dispatched,
                 parked>>

\* lines 832-878 when nothing stops the run before the call of line 882
MainResolved ==
  /\ pc = "resolve"
  /\ Resolvable
  /\ ~GuardRejects
  /\ subcommand' = Resolved
  /\ ind' = IndAfterResolve
  /\ pool' = FeedbackInit(pool)
  /\ pc' = "dispatch"
  /\ UNCHANGED <<argv, opt_state, log_under_version_control, ret, exit_code,
                 dispatched, out, parked>>

\* an exit status that takes the error main does not print for no error
ExitStatusOf_unprinted(err) ==
  IF err \notin {"SVN_NO_ERROR", "SVN_ERR_CL_ARG_PARSING_ERROR"}
    THEN EXIT_FAILURE ELSE EXIT_SUCCESS

\* lines 883-894: what main returns after the command routine returned err
ExitStatusOf(err) ==
  IF err # "SVN_NO_ERROR" THEN EXIT_FAILURE ELSE EXIT_SUCCESS

\* lines 882-894: call the command routine and return
MainDispatch ==
  /\ pc = "dispatch"
  /\ \E err \in HandlerResults :
       /\ dispatched' = Append(dispatched,
                               [cmd_func |-> Entry(subcommand).cmd_func,
                                ind |-> ind, err |-> err])
       /\ out' = IF err \notin {"SVN_NO_ERROR", "SVN_ERR_CL_ARG_PARSING_ERROR"}
                   THEN Append(out, Line("stderr", "handler error", NULL,
                                         NullText))
                   ELSE out
       /\ exit_code' = Append(exit_code, ExitStatusOf(err))
  /\ pool' = svn_pool_destroy(PoolUse(pool))
  /\ pc' = "returned"
  /\ UNCHANGED <<argv, ind, opt_state, log_under_version_control, subcommand,
                 ret, parked>>

Next ==
  \/ MainNoArgs
  \/ MainGetoptInit
  \/ MainScanEof
  \/ MainScanError
  \/ MainOptRevision
  \/ MainOptDate
  \/ MainOptFiledata
  \/ MainOptLocale
  \/ MainOptSet
  \/ MainNoSubcommand
  \/ MainUnknownCommand
  \/ MainGuardReject
  \/ MainResolved
  \/ MainDispatch

Spec == Init /\ [][Next]_vars

(***************************************************************************)
(* parse_revision on its own: called on every short string over RevChars   *)
(* and on the longer strings of LongRevArgs, from either of two contents   *)
(* of the revision fields.                                                 *)
(***************************************************************************)
RevChars == {"5", "0", "h", "H", "e", "a", "d", ":", "x"}

LongRevArgs ==
  {<<"h", "e", "a", "d">>, <<"H", "E", "A", "D">>, <<"h", "E", "a", "D">>,
   <<"h", "e", "a", "d", "s">>, <<"h", "e", "a", "x">>,
   <<"h", "e", "a", "d", ":", "5">>, <<"5", ":", "h", "e", "a", "d">>,
   <<"H", "e", "a", "d", ":", "H">>, <<"h", "e", "a", "d", ":", "5", "x">>,
   <<"5", ":", "6", ":", "7">>, <<"1", "2", ":", "3", "4", "5">>,
   <<"5", ":", "h", "e", "a", "d", "s">>, <<"h", "5", ":", "1", "0">>,
   <<"0", "0", "0", "7", ":", "1", "0", "0">>,
   <<"2", "1", "4", "7", "4", "8", "3", "6", "4", "7">>,
   <<"2", "1", "4", "7", "4", "8", "3", "6", "4", "8">>,
   <<"5", ":", "4", "2", "9", "4", "9", "6", "7", "2", "9", "6">>,
   <<"9", "9", "9", "9", "9", "9", "9", "9", "9", "9",
     "9", "9", "9", "9", "9", "9", "9", "9", "9", "9">>}

RevArgs == SeqsUpTo(RevChars, MaxLen) \cup LongRevArgs

InitRev ==
  /\ pc = "parse_revision"
  /\ arg \in RevArgs
  /\ opt_state \in {InitialOptState,
                    [InitialOptState EXCEPT !.start_revision = 7,
                                            !.end_revision = 9]}
  /\ argv = <<>>
  /\ ind = 1
  /\ log_under_version_control = FALSE
  /\ pool = svn_pool_create
  /\ subcommand = NoEntry
  /\ ret = 0
  /\ exit_code = <<>>
  /\ dispatched = <<>>
  /\ out = <<>>
  /\ cmd = NULL
  /\ cmd_desc = NoEntry

\* lines 534-572: one call of parse_revision
RevParse ==
  /\ pc = "parse_revision"
  /\ \E b \in Builds :
       LET res == parse_revision(b, opt_state, arg) IN
         /\ ret' = res[1]
         /\ opt_state' = res[2]
  /\ pool' = PoolUse(pool)
  /\ pc' = "parsed"
  /\ UNCHANGED <<argv, ind, log_under_version_control, subcommand, exit_code,
                 dispatched, out, arg, cmd, cmd_desc>>

NextRev == RevParse

SpecRev == InitRev /\ [][NextRev]_vars

(***************************************************************************)
(* svn_cl__get_canonical_command on its own, one step of its loop at a     *)
(* time: called on every name of the table, on NULL and on names that are  *)
(* not in the table.                                                       *)
(***************************************************************************)
TableNames ==
  {svn_cl__cmd_table[i].name : i \in 1..Len(svn_cl__cmd_table)} \ {NULL}

UnknownNames == {"foo", "Add", "statu", "statuss", "", "hel", "H", "--help"}

InitCanon ==
  /\ pc = "lookup"
  /\ cmd \in TableNames \cup UnknownNames \cup {NULL}
  /\ cmd_desc = NoEntry
  /\ arg = NullText
  /\ opt_state = InitialOptState
  /\ argv = <<>>
  /\ ind = 1
  /\ log_under_version_control = FALSE
  /\ pool = svn_pool_create
  /\ subcommand = NoEntry
  /\ ret = 0
  /\ exit_code = <<>>
  /\ dispatched = <<>>
  /\ out = <<>>

\* lines 302-305: the lookup
CanonLookup ==
  /\ pc = "lookup"
  /\ cmd_desc' = get_cmd_table_entry(cmd)
  /\ pc' = IF get_cmd_table_entry(cmd) = NoEntry THEN "canonical" ELSE "walk"
  /\ UNCHANGED <<argv, ind, opt_state, log_under_version_control, pool,
                 subcommand, ret, exit_code, dispatched, out, arg, cmd>>

\* lines 307-308 walking forward
CanonStepForward ==
  /\ pc = "walk"
  /\ Entry(cmd_desc).is_alias
  /\ cmd_desc' = cmd_desc + 1
  /\ UNCHANGED <<pc, argv, ind, opt_state, log_under_version_control, pool,
                 subcommand, ret, exit_code, dispatched, out, arg, cmd>>

\* lines 307-308: one step back
CanonStepBack ==
  /\ pc = "walk"
  /\ Entry(cmd_desc).is_alias
  /\ cmd_desc' = cmd_desc - 1
  /\ UNCHANGED <<pc, argv, ind, opt_state, log_under_version_control, pool,
                 subcommand, ret, exit_code, dispatched, out, arg, cmd>>

\* line 310: return cmd_desc
CanonReturn ==
  /\ pc = "walk"
  /\ ~Entry(cmd_desc).is_alias
  /\ pc' = "canonical"
  /\ UNCHANGED <<cmd_desc, argv, ind, opt_state, log_under_version_control,
                 pool, subcommand, ret, exit_code, dispatched, out, arg, cmd>>

NextCanon == CanonLookup \/ CanonStepBack \/ CanonReturn

SpecCanon == InitCanon /\ [][NextCanon]_vars

(***************************************************************************)
(* 'help' processing: print_command_info, called by                        *)
(* svn_cl__subcommand_help with the help text and the options, and by      *)
(* svn_cl__print_generic_help for every entry that is no alias.            *)
(***************************************************************************)
\* the loop of line 371 without its test of is_alias
RECURSIVE alias_names_to_end(_)
alias_names_to_end(j) ==
  IF Entry(j).name # NULL
    THEN <<Entry(j).name>> \o alias_names_to_end(j + 1)
    ELSE <<>>

\* lines 371-381: the names printed between the parentheses, from entry j on
RECURSIVE alias_names(_)
alias_names(j) ==
  IF Entry(j).name # NULL /\ Entry(j).is_alias
    THEN <<Entry(j).name>> \o alias_names(j + 1)
    ELSE <<>>

\* lines 332-349: the first option of the table with this code
svn_cl__get_option_from_enum(code) ==
  IF OptionIndexes(code) = {} THEN NoEntry
  ELSE CHOOSE i \in OptionIndexes(code) : \A k \in OptionIndexes(code) : i <= k

\* lines 394-406: the options printed for the codes of valid_options
RECURSIVE option_lines(_, _)
option_lines(valid_options, i) ==
  IF i > Len(valid_options) THEN <<>>
  ELSE LET option == svn_cl__get_option_from_enum(valid_options[i]) IN
         (IF option # NoEntry THEN <<svn_cl__options[option].name>>
                              ELSE <<>>)
         \o option_lines(valid_options, i + 1)

\* lines 355-409: what print_command_info writes for entry d
print_command_info(d, help, stream) ==
  LET canonical_cmd == svn_cl__get_canonical_command(Entry(d).name) IN
    [stream |-> stream, msg |-> "command info",
     name |-> Entry(canonical_cmd).name,
     aliases |-> alias_names(canonical_cmd + 1),
     help |-> IF help THEN Entry(canonical_cmd).help ELSE NULL,
     options |-> IF help
                   THEN option_lines(Entry(canonical_cmd).valid_options, 1)
                   ELSE <<>>]

InitInfo ==
  /\ \/ /\ pc = "subcommand_help"
        /\ cmd \in TableNames \cup UnknownNames
        /\ cmd_desc = NoEntry
     \/ /\ pc = "print_generic_help"
        /\ cmd = NULL
        /\ cmd_desc = 1
  /\ arg = NullText
  /\ opt_state = InitialOptState
  /\ argv = <<>>
  /\ ind = 1
  /\ log_under_version_control = FALSE
  /\ pool = svn_pool_create
  /\ subcommand = NoEntry
  /\ ret = 0
  /\ exit_code = <<>>
  /\ dispatched = <<>>
  /\ out = <<>>

\* lines 457-468: svn_cl__subcommand_help
SubcommandHelp ==
  /\ pc = "subcommand_help"
  /\ cmd_desc' = svn_cl__get_canonical_command(cmd)
  /\ out' = IF svn_cl__get_canonical_command(cmd) # NoEntry
              THEN Append(out,
                          print_command_info(
                            svn_cl__get_canonical_command(cmd), TRUE,
                            "stdout"))
              ELSE Append(out, Line("stderr", "unknown command", cmd,
                                    NullText))
  /\ pc' = "helped"
  /\ UNCHANGED <<argv, ind, opt_state, log_under_version_control, pool,
                 subcommand, ret, exit_code, dispatched, arg, cmd>>

\* lines 435-445: one turn of the loop of svn_cl__print_generic_help
GenericHelpEntry ==
  /\ pc = "print_generic_help"
  /\ Entry(cmd_desc).name # NULL
  /\ out' = IF ~Entry(cmd_desc).is_alias
              THEN Append(out, print_command_info(cmd_desc, FALSE, "stream"))
              ELSE out
  /\ cmd_desc' = cmd_desc + 1
  /\ UNCHANGED <<pc, argv, ind, opt_state, log_under_version_control, pool,
                 subcommand, ret, exit_code, dispatched, arg, cmd>>

\* lines 435, 447-448: the end of the table
GenericHelpEnd ==
  /\ pc = "print_generic_help"
  /\ Entry(cmd_desc).name = NULL
  /\ pc' = "helped"
  /\ UNCHANGED <<cmd_desc, argv, ind, opt_state, log_under_version_control,
                 pool, subcommand, ret, exit_code, dispatched, out, arg, cmd>>

NextInfo == SubcommandHelp \/ GenericHelpEntry \/ GenericHelpEnd

SpecInfo == InitInfo /\ [][NextInfo]_vars

(***************************************************************************)
(* The properties.  The shapes of the arguments are stated here on their   *)
(* own, not through the parsers above.                                     *)
(***************************************************************************)
DigitSet == {"0", "1", "2", "3", "4", "5", "6", "7", "8", "9"}

ColonCount(a) == Cardinality({i \in 1..Len(a) : a[i] = ":"})

FirstColon(a) == CHOOSE i \in 1..Len(a) : a[i] = ":"

\* the parts before and after the only ':' of a; a itself twice without ':'
LeftHalf(a) ==
  IF ColonCount(a) = 0 THEN a ELSE SubSeq(a, 1, FirstColon(a) - 1)
RightHalf(a) ==
  IF ColonCount(a) = 0 THEN a ELSE SubSeq(a, FirstColon(a) + 1, Len(a))

AllDigits(h) == Len(h) >= 1 /\ \A i \in 1..Len(h) : h[i] \in DigitSet

LowerCase(c) ==
  CASE c = "H" -> "h" [] c = "E" -> "e" [] c = "A" -> "a" [] c = "D" -> "d"
    [] OTHER -> c

IsHeadForm(h) ==
  [i \in 1..Len(h) |-> LowerCase(h[i])] \in {<<"h">>, <<"h", "e", "a", "d">>}

ValidHalf(h) == h = <<>> \/ AllDigits(h) \/ IsHeadForm(h)

WellFormedRevArg(a) ==
  /\ ColonCount(a) <= 1
  /\ ValidHalf(LeftHalf(a))
  /\ ValidHalf(RightHalf(a))

\* the decimal digits of n >= 0 without leading zeros (none for 0)
RECURSIVE DecimalDigits(_)
DecimalDigits(n) ==
  IF n = 0 THEN <<>> ELSE DecimalDigits(n \div 10) \o <<Digits[(n % 10) + 1]>>

\* v is the integer value of digit string h
IsValueOf(v, h) == v >= 0 /\ DecimalDigits(v) = StripZeros(h)

\* the value of digit string h is at most INT_MAX
WithinInt(h) ==
  LET t == StripZeros(h) IN
    \/ Len(t) < 10
    \/ Len(t) = 10 /\ DigitsLE(t, DecimalDigits(2147483647))

\* v is what the claim says half h decodes to
Decodes(v, h) ==
  IF h = <<>> \/ IsHeadForm(h) THEN v = SVN_INVALID_REVNUM
                               ELSE IsValueOf(v, h)

\* C1 as stated: every well-formed revision argument parses, and each
\* endpoint is 'latest' for an empty or head-form half and the integer value
\* of the digits otherwise, whatever the number of digits.
C1_DecodingAnyDigits ==
  (pc = "parsed" /\ WellFormedRevArg(arg)) =>
    /\ ret = 0
    /\ Decodes(opt_state.start_revision, LeftHalf(arg))
    /\ Decodes(opt_state.end_revision, RightHalf(arg))

\* C1, amended: every well-formed revision argument parses; an empty or
\* head-form half sets its endpoint to 'latest' (SVN_INVALID_REVNUM), and a
\* digit half whose value is at most INT_MAX sets it to that value (with no
\* ':' the whole string is both halves).  Nothing is said of the value
\* stored for a digit half beyond INT_MAX.
C1_Decoding ==
  (pc = "parsed" /\ WellFormedRevArg(arg)) =>
    /\ ret = 0
    /\ (WithinInt(LeftHalf(arg)) \/ ~AllDigits(LeftHalf(arg)))
         => Decodes(opt_state.start_revision, LeftHalf(arg))
    /\ (WithinInt(RightHalf(arg)) \/ ~AllDigits(RightHalf(arg)))
         => Decodes(opt_state.end_revision, RightHalf(arg))

\* "head:5" has been parsed to (latest, 5)
C1_Witness ==
  /\ pc = "parsed"
  /\ arg = <<"h", "e", "a", "d", ":", "5">>
  /\ ret = 0
  /\ opt_state.start_revision = SVN_INVALID_REVNUM
  /\ opt_state.end_revision = 5

\* C2: an argument with a second ':' or with a half that is not empty, all
\* digits or a case variant of "h"/"head" makes parse_revision return
\* non-zero and leaves start_revision and end_revision as they were.
C2_Rejection ==
  [][(pc = "parse_revision" /\ ~WellFormedRevArg(arg)) =>
       /\ ret' # 0
       /\ opt_state'.start_revision = opt_state.start_revision
       /\ opt_state'.end_revision = opt_state.end_revision]_vars

\* "5:heads" was rejected with the fields still at 7 and 9
C2_Witness ==
  /\ pc = "parsed"
  /\ arg = <<"5", ":", "h", "e", "a", "d", "s">>
  /\ ret # 0
  /\ opt_state.start_revision = 7
  /\ opt_state.end_revision = 9

\* the scanner is about to be handed a date switch with its argument
DateSwitchNext ==
  /\ pc = "scan"
  /\ NextOption(argv, ind) # 0
  /\ CurrentOption.optch = "D"
  /\ CurrentOption.has_arg

\* the collaborator accepts date text t, and the time it stands for
DateAccepted(t) == svn_parse_date(t) # -1
DateOf(t) == svn_parse_date(t) * 1000000

\* C3: a date argument without ':' sets start_date and end_date to its
\* date; with one ':' a non-empty half sets its own endpoint and an empty
\* half leaves its endpoint as it was before the call.
C3_DateEndpoints ==
  [][(DateSwitchNext /\ ColonCount(CurrentOption.text) <= 1) =>
       LET a == CurrentOption.text
           L == LeftHalf(a)
           R == RightHalf(a)
       IN /\ ret' = 0
          /\ pc' = "scan"
          /\ IF ColonCount(a) = 0
               THEN DateAccepted(a) =>
                      /\ opt_state'.start_date = DateOf(a)
                      /\ opt_state'.end_date = DateOf(a)
               ELSE /\ L = <<>> =>
                         opt_state'.start_date = opt_state.start_date
                    /\ (L # <<>> /\ DateAccepted(L)) =>
                         opt_state'.start_date = DateOf(L)
                    /\ R = <<>> =>
                         opt_state'.end_date = opt_state.end_date
                    /\ (R # <<>> /\ DateAccepted(R)) =>
                         opt_state'.end_date = DateOf(R)]_vars

\* -D a: -D :b have been scanned: start is a's date, end is b's date
C3_Witness ==
  /\ pc = "scan"
  /\ Len(argv) = 3
  /\ ind = 3
  /\ argv[1] = OptArg("D", <<"a", ":">>)
  /\ argv[2] = OptArg("D", <<":", "b">>)
  /\ opt_state.start_date = 1000000
  /\ opt_state.end_date = 2000000

\* the collaborator rejects the whole of a or a non-empty half of it, or a
\* has a second ':'
RejectedDateArg(a) ==
  \/ ColonCount(a) >= 2
  \/ ColonCount(a) = 0 /\ ~DateAccepted(a)
  \/ /\ ColonCount(a) = 1
     /\ \/ LeftHalf(a) # <<>> /\ ~DateAccepted(LeftHalf(a))
        \/ RightHalf(a) # <<>> /\ ~DateAccepted(RightHalf(a))

\* C4: a date switch whose text the date parser rejects, or that has a
\* second ':', is a syntax error: parse_date returns non-zero, main prints
\* "Unable to parse" and returns failure, and no handler is called.
C4_DateSyntaxError ==
  [][(DateSwitchNext /\ RejectedDateArg(CurrentOption.text)) =>
       /\ ret' # 0
       /\ pc' = "returned"
       /\ exit_code' = <<EXIT_FAILURE>>
       /\ out' = Append(out, Line("stderr", "Unable to parse", NULL,
                                  CurrentOption.text))
       /\ dispatched' = <<>>]_vars

(***************************************************************************)
(* What a command line is, read off argv alone.                            *)
(***************************************************************************)
\* the switches and the positional arguments of argv, in order
Switches == SelectSeq(argv, IsOpt)
Words == SelectSeq(argv, IsWord)

\* the switches of the option table that take a value
ValueSwitches ==
  {"d", "m", "r", "D", "F", "x", "svn_cl__xml_file_opt",
   "svn_cl__locale_opt", "svn_cl__auth_username_opt",
   "svn_cl__auth_password_opt"}
FlagSwitches ==
  {"h", "q", "n", "v", "V", "u", "svn_cl__force_opt",
   "svn_cl__recursive_opt", "svn_cl__version_opt"}

\* the tokenizer refuses tok: no such switch, or a value missing or in excess
TokenizerRefuses(tok) ==
  \/ tok.optch \notin ValueSwitches \cup FlagSwitches
  \/ tok.optch \in ValueSwitches /\ ~tok.has_arg
  \/ tok.optch \in FlagSwitches /\ tok.has_arg

\* the scan stops at switch tok
SwitchFails(tok) ==
  \/ TokenizerRefuses(tok)
  \/ tok.optch = "r" /\ ~WellFormedRevArg(tok.text)
  \/ tok.optch = "D" /\ ColonCount(tok.text) >= 2
  \/ tok.optch = "F" /\ ~FileSystem[tok.text].readable

ScanFails == \E j \in 1..Len(Switches) : SwitchFails(Switches[j])

HelpAsked ==
  \E j \in 1..Len(Switches) :
    Switches[j].optch \in {"h", "svn_cl__version_opt"}

ForceGiven ==
  \E j \in 1..Len(Switches) : Switches[j].optch = "svn_cl__force_opt"

\* some -F names a file that is under version control
VersionedFileNamed ==
  \E j \in 1..Len(Switches) :
    /\ Switches[j].optch = "F"
    /\ Switches[j].has_arg
    /\ FileSystem[Switches[j].text].wc = "entry"

GuardMessage ==
  Line("stderr", "Log message file is a versioned file", NULL, NullText)

GuardMessagePrinted == \E k \in 1..Len(out) : out[k] = GuardMessage

\* C5: once a subcommand is resolved, a versioned -F file without the force
\* flag ends the run with the versioned-file failure and no handler; with
\* the force flag anywhere in argv the guard does not reject and the
\* resolved entry's handler is the one called.
C5_GuardRule ==
  (subcommand # NoEntry /\ VersionedFileNamed) =>
    IF ~ForceGiven
      THEN /\ pc = "returned"
           /\ dispatched = <<>>
           /\ exit_code = <<EXIT_FAILURE>>
           /\ out[Len(out)] = GuardMessage
      ELSE /\ ~GuardMessagePrinted
           /\ pc \in {"dispatch", "returned"}
           /\ pc = "returned" =>
                /\ Len(dispatched) = 1
                /\ dispatched[1].cmd_func = Entry(subcommand).cmd_func
                /\ dispatched[1].cmd_func # NULL

\* -h -F log: help is resolved and the guard still rejects
C5_Witness ==
  /\ pc = "returned"
  /\ argv = <<Opt("h"), OptArg("F", <<"l", "o", "g">>)>>
  /\ Entry(subcommand).name = "help"
  /\ dispatched = <<>>
  /\ out = <<GuardMessage>>

\* the run fails before the call of a handler
PreDispatchFailure ==
  \/ argv = <<>>
  \/ ScanFails
  \/ ~HelpAsked /\ Words = <<>>
  \/ ~HelpAsked /\ Words # <<>> /\ Words[1].name \notin TableNames
  \/ VersionedFileNamed /\ ~ForceGiven

\* C6: main returns EXIT_SUCCESS exactly when one handler was called and it
\* returned no error; every other run returns failure, and a run that fails
\* before the call (no arguments, scan failure, no or unknown subcommand,
\* guard rejection) calls no handler.
C6_ExitStatus ==
  /\ Len(dispatched) <= 1
  /\ pc # "returned" => exit_code = <<>> /\ dispatched = <<>>
  /\ pc = "returned" =>
       /\ Len(exit_code) = 1
       /\ exit_code[1] \in {EXIT_SUCCESS, EXIT_FAILURE}
       /\ exit_code[1] = EXIT_SUCCESS <=>
            (Len(dispatched) = 1 /\ dispatched[1].err = "SVN_NO_ERROR")
       /\ PreDispatchFailure <=> dispatched = <<>>
  /\ PreDispatchFailure => pc # "dispatch"

\* "status" ran without error and main returned 0
C6_Witness ==
  /\ pc = "returned"
  /\ exit_code = <<EXIT_SUCCESS>>
  /\ Len(dispatched) = 1
  /\ dispatched[1].cmd_func = "svn_cl__status"
  /\ dispatched[1].err = "SVN_NO_ERROR"

\* the entries at or before i that are no aliases
CanonicalsUpTo(i) == {j \in 1..i : ~svn_cl__cmd_table[j].is_alias}

\* the largest element of a non-empty set of numbers
Largest(S) == CHOOSE x \in S : \A y \in S : y <= x

\* the index of table name n
IndexOf(n) ==
  CHOOSE i \in 1..Len(svn_cl__cmd_table) : svn_cl__cmd_table[i].name = n

\* C7: for every name of the table svn_cl__get_canonical_command returns the
\* nearest entry at or before it that is no alias; the walk stays inside
\* the table; the entry returned has a handler and a help text, is returned
\* again for its own name, and its name differs from the input exactly when
\* the input is an alias.
C7_Canonical ==
  /\ pc = "walk" => cmd_desc \in 1..(Len(svn_cl__cmd_table) - 1)
  /\ (pc = "canonical" /\ cmd \in TableNames) =>
       /\ cmd_desc \in 1..(Len(svn_cl__cmd_table) - 1)
       /\ CanonicalsUpTo(IndexOf(cmd)) # {}
       /\ cmd_desc = Largest(CanonicalsUpTo(IndexOf(cmd)))
       /\ svn_cl__cmd_table[cmd_desc].cmd_func # NULL
       /\ svn_cl__cmd_table[cmd_desc].help # NULL
       /\ svn_cl__get_canonical_command(svn_cl__cmd_table[cmd_desc].name)
            = cmd_desc
       /\ svn_cl__get_canonical_command(cmd) = cmd_desc
       /\ (svn_cl__cmd_table[cmd_desc].name # cmd)
            <=> svn_cl__cmd_table[IndexOf(cmd)].is_alias

\* "rm" has been canonicalized to "delete", three entries back
C7_Witness ==
  /\ pc = "canonical"
  /\ cmd = "rm"
  /\ svn_cl__cmd_table[cmd_desc].name = "delete"

UnknownCommandLines(name) ==
  <<Line("stderr", "unknown command", name, NullText), GenericHelp>>

\* neither lookup finds an entry for NULL or for a string outside the table
UnknownNotFound ==
  \A n \in UnknownNames \cup {NULL} :
    /\ get_cmd_table_entry(n) = NoEntry
    /\ svn_cl__get_canonical_command(n) = NoEntry

\* C8: the lookup of NULL or of a string that is no name of the table gives
\* no entry; when the scan succeeds, help was not asked for and the first
\* positional argument is such a string, main prints "unknown command" with
\* the argument and then the generic help, calls no handler and returns
\* failure, and does so before the guard (which prints nothing).
C8_UnknownCommand ==
  /\ UnknownNotFound
  /\ (/\ pc \notin {"main", "scan"}
      /\ ~ScanFails
      /\ ~HelpAsked
      /\ Words # <<>>
      /\ Words[1].name \notin TableNames) =>
       \/ pc = "resolve"
       \/ /\ pc = "returned"
          /\ Len(out) >= 2
          /\ SubSeq(out, Len(out) - 1, Len(out))
               = UnknownCommandLines(Words[1].name)
          /\ ~GuardMessagePrinted
          /\ dispatched = <<>>
          /\ subcommand = NoEntry
          /\ exit_code = <<EXIT_FAILURE>>

\* -F log foo: the unknown command is reported, not the versioned log file
C8_Witness ==
  /\ pc = "returned"
  /\ argv = <<OptArg("F", <<"l", "o", "g">>), Word("foo")>>
  /\ log_under_version_control
  /\ ~opt_state.force
  /\ out = UnknownCommandLines("foo")
  /\ exit_code = <<EXIT_FAILURE>>

\* C9: the pool created at startup is live and in use until main returns,
\* and on every return it has been destroyed exactly once, with no use of
\* it after the destroy.
C9_PoolReleased ==
  /\ ~pool.misused
  /\ pc # "returned" => pool.live /\ pool.destroyed = 0
  /\ pc = "returned" => ~pool.live /\ pool.destroyed = 1

\* main returned on a tokenizer error with the pool destroyed once
C9_Witness ==
  /\ pc = "returned"
  /\ argv = <<Opt("q"), Opt("Z")>>
  /\ out = <<GenericHelp>>
  /\ pool.destroyed = 1
  /\ ~pool.live

\* the codes the switch of line 705 has a case for
SwitchCases ==
  {"m", "r", "D", "v", "V", "u", "h", "?", "q", "svn_cl__xml_file_opt", "d",
   "F", "M", "svn_cl__force_opt", "svn_cl__recursive_opt", "n",
   "svn_cl__version_opt", "svn_cl__auth_username_opt",
   "svn_cl__auth_password_opt", "svn_cl__locale_opt", "x"}

\* the scanner is about to be handed a switch it has no case for
UnrecognizedNext ==
  /\ pc = "scan"
  /\ NextOption(argv, ind) # 0
  /\ CurrentOption.optch \notin SwitchCases

\* C10 as stated: an option the scanner does not recognize is ignored: no
\* error, no change of opt_state, and the scan goes on with the next token.
C10_SilentlyIgnored ==
  [][UnrecognizedNext =>
       /\ pc' = "scan"
       /\ ind' = NextOption(argv, ind) + 1
       /\ opt_state' = opt_state
       /\ out' = out
       /\ exit_code' = <<>>]_vars

\* C10, amended: an option the scanner does not recognize is refused by the
\* tokenizer, and the run ends there: the generic help is printed, opt_state
\* is left alone, no handler is called and main returns failure.  Every
\* switch of the option table has a case, so the default branch of the
\* switch ignores nothing.
C10_UnrecognizedRefused ==
  [][/\ \A i \in 1..Len(svn_cl__options) :
          svn_cl__options[i].optch \in SwitchCases
     /\ UnrecognizedNext =>
          /\ pc' = "returned"
          /\ exit_code' = <<EXIT_FAILURE>>
          /\ out' = Append(out, GenericHelp)
          /\ opt_state' = opt_state
          /\ dispatched' = <<>>]_vars

\* status -Z: the run ended at -Z with the generic help and no handler
C10_Witness ==
  /\ pc = "returned"
  /\ argv = <<Word("status"), Opt("Z")>>
  /\ out = <<GenericHelp>>
  /\ exit_code = <<EXIT_FAILURE>>
  /\ dispatched = <<>>

(***************************************************************************)
(* Help mode.                                                              *)
(***************************************************************************)
HelpEntry == IndexOf("help")

\* the lines main prints when it finds no subcommand
NoSubcommandPrinted ==
  \E k \in 1..Len(out) :
    out[k].msg \in {"subcommand argument required", "unknown command"}

\* os->ind when no positional argument has been consumed
FirstWord == Len(Switches) + 1

\* C11: when -h or --version is among the switches and the scan succeeds,
\* the subcommand is the canonical "help" entry whatever the positional
\* arguments are, os->ind is left at the first of them (the help handler
\* gets them all), and no or an unknown first positional argument is no
\* error; --version sets both version and help.  Without a help switch the
\* first positional argument is consumed and is the name looked up.
C11_HelpMode ==
  /\ (pc \in {"resolve", "dispatch", "returned"} /\ ~ScanFails) =>
       /\ opt_state.help <=> HelpAsked
       /\ opt_state.version <=>
            \E j \in 1..Len(Switches) :
              Switches[j].optch = "svn_cl__version_opt"
       /\ opt_state.version => opt_state.help
  /\ (pc \in {"dispatch", "returned"} /\ ~ScanFails /\ HelpAsked) =>
       /\ ~NoSubcommandPrinted
       /\ subcommand = HelpEntry
       /\ ~svn_cl__cmd_table[subcommand].is_alias
       /\ ind = FirstWord
       /\ SubSeq(argv, ind, Len(argv)) = Words
       /\ \A k \in 1..Len(dispatched) :
            /\ dispatched[k].cmd_func = "svn_cl__help"
            /\ dispatched[k].ind = FirstWord
  /\ (pc \in {"dispatch", "returned"} /\ ~ScanFails /\ ~HelpAsked
        /\ subcommand # NoEntry) =>
       /\ Words # <<>>
       /\ subcommand = svn_cl__get_canonical_command(Words[1].name)
       /\ ind = FirstWord + 1
       /\ \A k \in 1..Len(dispatched) : dispatched[k].ind = FirstWord + 1

\* --version foo: the help handler ran and was handed "foo"
C11_Witness ==
  /\ pc = "returned"
  /\ argv = <<Opt("svn_cl__version_opt"), Word("foo")>>
  /\ opt_state.version
  /\ opt_state.help
  /\ subcommand = HelpEntry
  /\ Len(dispatched) = 1
  /\ dispatched[1].cmd_func = "svn_cl__help"
  /\ argv[dispatched[1].ind] = Word("foo")
  /\ out = <<>>

(***************************************************************************)
(* The switch -?.                                                          *)
(***************************************************************************)
\* the position among the switches of the first -?, 0 when there is none
FirstQuestion ==
  IF \E j \in 1..Len(Switches) : Switches[j].optch = "?"
    THEN CHOOSE j \in 1..Len(Switches) :
           /\ Switches[j].optch = "?"
           /\ \A k \in 1..(j - 1) : Switches[k].optch # "?"
    ELSE 0

\* -? is among the switches and no switch before it stops the scan
QuestionScanned ==
  /\ FirstQuestion # 0
  /\ \A k \in 1..(FirstQuestion - 1) : ~SwitchFails(Switches[k])

\* no switch other than -? stops the scan
OnlyQuestionInDoubt ==
  \A k \in 1..Len(Switches) :
    Switches[k].optch # "?" => ~SwitchFails(Switches[k])

\* C12 as stated: -? is a help flag like -h: scanning it sets the help
\* field and does not fail the scan, and the run goes to the help handler.
C12_QuestionIsHelp ==
  (pc = "returned" /\ FirstQuestion # 0 /\ OnlyQuestionInDoubt
     /\ ~(VersionedFileNamed /\ ~ForceGiven)) =>
    /\ opt_state.help
    /\ subcommand = HelpEntry
    /\ Len(dispatched) = 1
    /\ dispatched[1].cmd_func = "svn_cl__help"

\* C12, amended: '?' is no code of the option table, so the tokenizer
\* refuses -? like any unknown switch: the run ends at it with the generic
\* help and a failure status, the help field is set only if -h or --version
\* came before it, no subcommand is resolved and no handler is called; -h
\* in the same place is scanned and sets the help field.
C12_QuestionRefused ==
  /\ \A i \in 1..Len(svn_cl__options) : svn_cl__options[i].optch # "?"
  /\ QuestionScanned =>
       /\ pc \in {"main", "scan", "returned"}
       /\ pc = "returned" =>
            /\ out[Len(out)] = GenericHelp
            /\ exit_code = <<EXIT_FAILURE>>
            /\ dispatched = <<>>
            /\ subcommand = NoEntry
            /\ opt_state.help <=>
                 \E k \in 1..(FirstQuestion - 1) :
                   Switches[k].optch \in {"h", "svn_cl__version_opt"}
  /\ (pc \in {"resolve", "dispatch", "returned"} /\ ~ScanFails
        /\ \E j \in 1..Len(Switches) : Switches[j].optch = "h") =>
       opt_state.help

\* -? status: the run ended at -? with the generic help, help not set
C12_Witness ==
  /\ pc = "returned"
  /\ argv = <<Opt("?"), Word("status")>>
  /\ ~opt_state.help
  /\ out = <<GenericHelp>>
  /\ exit_code = <<EXIT_FAILURE>>
  /\ dispatched = <<>>

(***************************************************************************)
(* The command surface.                                                    *)
(***************************************************************************)
CanonicalNames ==
  {"add", "checkout", "cleanup", "commit", "copy", "delete", "diff", "help",
   "import", "log", "mkdir", "move", "propdel", "propedit", "propget",
   "proplist", "propset", "revert", "status", "switch", "update"}

\* the names of the entries that are no aliases
RegisteredCanonicals ==
  {svn_cl__cmd_table[i].name :
     i \in {j \in 1..Len(svn_cl__cmd_table) :
              /\ svn_cl__cmd_table[j].name # NULL
              /\ ~svn_cl__cmd_table[j].is_alias}}

\* the canonical commands that have no alias entry
Unaliased == {"cleanup", "import", "log", "mkdir", "revert"}

\* the command info lines printed so far
InfoLines == {k \in 1..Len(out) : out[k].msg = "command info"}

\* C13 as stated: the entries that are no aliases are exactly the 21
\* canonical names, and every one of them is followed by one or more
\* aliases, so every command info line lists at least one alias.
C13_EveryCommandAliased ==
  /\ RegisteredCanonicals = CanonicalNames
  /\ \A k \in InfoLines : out[k].aliases # <<>>

\* C13, amended: the entries that are no aliases are exactly the 21
\* canonical names; each is followed by zero or more aliases, and cleanup,
\* import, log, mkdir and revert by none: their command info line has
\* no alias list, every other command's has one, and the names listed are
\* alias entries that resolve to the command.
C13_CommandSurface ==
  /\ RegisteredCanonicals = CanonicalNames
  /\ Unaliased \subseteq CanonicalNames
  /\ \A k \in InfoLines :
       /\ out[k].name \in CanonicalNames
       /\ out[k].aliases = <<>> <=> out[k].name \in Unaliased
       /\ \A a \in 1..Len(out[k].aliases) :
            /\ svn_cl__cmd_table[IndexOf(out[k].aliases[a])].is_alias
            /\ svn_cl__cmd_table[
                 svn_cl__get_canonical_command(out[k].aliases[a])].name
                 = out[k].name
  /\ (pc = "helped" /\ cmd = NULL) =>
       {out[k].name : k \in InfoLines} = CanonicalNames
  /\ (pc = "helped" /\ cmd \in TableNames) =>
       /\ Len(out) = 1
       /\ out[1].name
            = svn_cl__cmd_table[svn_cl__get_canonical_command(cmd)].name

\* the help of "log" was printed: a canonical command without an alias
C13_Witness ==
  /\ pc = "helped"
  /\ cmd = "log"
  /\ Len(out) = 1
  /\ out[1].name = "log"
  /\ out[1].aliases = <<>>
  /\ out[1].help # NULL

(***************************************************************************)
(* The advertised options of a command.                                    *)
(***************************************************************************)
Given(ch) == \E j \in 1..Len(Switches) : Switches[j].optch = ch

\* the last switch ch of the command line
LastGiven(ch) ==
  Switches[Largest({j \in 1..Len(Switches) : Switches[j].optch = ch})]

\* opt_state as the switches of argv alone determine it
DecodedFromArgv ==
  /\ opt_state.force = Given("svn_cl__force_opt")
  /\ opt_state.help = HelpAsked
  /\ opt_state.version = Given("svn_cl__version_opt")
  /\ opt_state.quiet = Given("q")
  /\ opt_state.message
       = IF Given("m") THEN LastGiven("m").text ELSE NullText
  /\ opt_state.filedata
       = IF Given("F") THEN FileSystem[LastGiven("F").text].contents
                       ELSE NullText
  /\ IF Given("r")
       THEN /\ Decodes(opt_state.start_revision,
                       LeftHalf(LastGiven("r").text))
            /\ Decodes(opt_state.end_revision,
                       RightHalf(LastGiven("r").text))
       ELSE /\ opt_state.start_revision = SVN_INVALID_REVNUM
            /\ opt_state.end_revision = 1
  /\ Given("D") <=> (opt_state.start_date # 0 \/ opt_state.end_date # 0)
  /\ \A f \in {"verbose", "very_verbose", "update", "xml_file", "target",
               "modified", "recursive", "nonrecursive", "auth_username",
               "auth_password", "extensions"} :
       opt_state[f] = InitialOptState[f]

\* the entry the command line asks for, 0 when it names none
AskedEntry ==
  IF HelpAsked THEN HelpEntry
  ELSE IF Words # <<>> /\ Words[1].name \in TableNames
    THEN Largest(CanonicalsUpTo(IndexOf(Words[1].name)))
    ELSE NoEntry

\* some switch of argv is not among the advertised options of entry d
Unadvertised(d) ==
  \E j \in 1..Len(Switches) :
    \A k \in 1..Len(svn_cl__cmd_table[d].valid_options) :
      svn_cl__cmd_table[d].valid_options[k] # Switches[j].optch

\* C14: the advertised options of the commands are never enforced.  After a
\* successful scan opt_state is determined by the switches of argv alone,
\* the subcommand by the help switches and the first positional argument
\* alone, and the handler is called unless the run failed for a reason that
\* does not involve valid_options; so a recognized switch outside the
\* advertised options of the chosen command is decoded and does not prevent
\* the call.
C14_AdvertisedNotEnforced ==
  /\ (pc \in {"resolve", "dispatch", "returned"} /\ ~ScanFails) =>
       DecodedFromArgv
  /\ (pc \in {"dispatch", "returned"} /\ ~ScanFails /\ AskedEntry # NoEntry)
       => subcommand = AskedEntry
  /\ (pc = "returned" /\ ~PreDispatchFailure) =>
       /\ Len(dispatched) = 1
       /\ dispatched[1].cmd_func = svn_cl__cmd_table[AskedEntry].cmd_func
       /\ exit_code = <<IF dispatched[1].err = "SVN_NO_ERROR"
                          THEN EXIT_SUCCESS ELSE EXIT_FAILURE>>

\* status -m msg: 'm' is not advertised for status, yet the message is
\* stored and svn_cl__status is called
C14_Witness ==
  /\ pc = "returned"
  /\ Words = <<Word("status")>>
  /\ Switches = <<OptArg("m", <<"m", "s", "g">>)>>
  /\ Unadvertised(subcommand)
  /\ opt_state.message = <<"m", "s", "g">>
  /\ Len(dispatched) = 1
  /\ dispatched[1].cmd_func = "svn_cl__status"
  /\ exit_code = <<EXIT_SUCCESS>>

(***************************************************************************)
(* When the scan stops.                                                    *)
(***************************************************************************)
\* tok is a locale switch whose locale can not be set
BadLocale(tok) ==
  /\ tok.optch = "svn_cl__locale_opt"
  /\ tok.has_arg
  /\ tok.text \notin {<<"C">>}

LocaleMessage(tok) ==
  Line("stderr", "The locale can not be set", NULL, tok.text)

\* the switches of argv from position i on hold a help or a force switch
HelpOrForceFrom(i) ==
  \E j \in i..Len(argv) :
    /\ argv[j].kind = "opt"
    /\ argv[j].optch \in {"h", "svn_cl__version_opt", "svn_cl__force_opt"}

ScannedFiles ==
  SelectSeq(SubSeq(argv, 1, ind - 1),
            LAMBDA tok : tok.kind = "opt" /\ tok.optch = "F" /\ tok.has_arg)

IsVersioned(tok) == FileSystem[tok.text].wc = "entry"

\* the last -F of the command line names a file that is not versioned
LastFileUnversioned == Given("F") /\ ~IsVersioned(LastGiven("F"))

\* C16: the flag log_under_version_control is set by the first -F that
\* names a versioned file and no later -F clears it, while opt_state.filedata
\* holds the contents of the last -F file; so when the scan succeeds and a
\* subcommand is resolved without the force flag, the guard rejects as soon
\* as one -F file is versioned, also when the file whose contents are kept
\* is not.
C16_StickyGuardFlag ==
  /\ pc = "scan" =>
       /\ log_under_version_control <=>
            \E j \in 1..Len(ScannedFiles) : IsVersioned(ScannedFiles[j])
       /\ ScannedFiles # <<>> =>
            opt_state.filedata
              = FileSystem[ScannedFiles[Len(ScannedFiles)].text].contents
  /\ (pc \in {"resolve", "dispatch", "returned"} /\ ~ScanFails) =>
       /\ log_under_version_control <=> VersionedFileNamed
       /\ Given("F") =>
            opt_state.filedata = FileSystem[LastGiven("F").text].contents
  /\ (pc = "returned" /\ ~ScanFails /\ subcommand # NoEntry
        /\ VersionedFileNamed /\ ~ForceGiven) =>
       /\ out[Len(out)] = GuardMessage
       /\ dispatched = <<>>
       /\ exit_code = <<EXIT_FAILURE>>

\* -F log -F tmp status: the contents kept are those of tmp, which is not
\* versioned, and the guard rejects because of log
C16_Witness ==
  /\ pc = "returned"
  /\ argv = <<OptArg("F", <<"l", "o", "g">>), OptArg("F", <<"t", "m", "p">>),
              Word("status")>>
  /\ LastFileUnversioned
  /\ opt_state.filedata = FileSystem[<<"t", "m", "p">>].contents
  /\ log_under_version_control
  /\ out = <<GuardMessage>>
  /\ dispatched = <<>>

====
